---- MODULE Spec2Model ----
(***************************************************************************)
(* The realtime perception-to-guidance loop of avion-cargo:                *)
(*   - Controller (src/src/interface/controller.py): start/stop/init and   *)
(*     the background thread running _run_loop;                            *)
(*   - Interface (src/src/interface/interface_waiter.py): the observer     *)
(*     registry and trigger_observers;                                     *)
(*   - Movements (src/src/interface/movements.py): the bounded history;    *)
(*   - detection_loop (src/src/main.py): the standalone loop with its      *)
(*     consecutive-failure counter and camera reopening.                   *)
(* Time is logical: a sleep is folded into the step that follows it, and   *)
(* a thread whose program counter names a call into the camera, the        *)
(* detector, the vehicle or an observer is inside that call.               *)
(***************************************************************************)
EXTENDS Integers, Sequences, FiniteSets, TLC

\* ------------------------------------------------------------------ bounds
\* Events a client appends to the Movements log.
MaxAppends == 4
\* Domain objects kept.
MaxObjects == 2
\* The largest finite marker length tried, in centimetres, and its opposite.
MaxLength == 2
\* Calls of start()/stop() made by the foreground context.
MaxCalls == 3
\* Iterations of Controller._run_loop begun, over all threads.
MaxIter == 2
\* Movements(max_size=...): the capacity of the deque in the model.
MaxSize == 2
\* Iterations of detection_loop begun.
MaxDLCycles == 13
\* Markers the detector reports in one frame of detection_loop.
MaxMarkers == 2

\* The detector finds at most MaxDetections markers in a frame.
MaxDetections == 3

\* update() calls made on the view.
MaxUpdates == 3

\* Coordinates of a pose translation range over -MaxCoord..MaxCoord.
MaxCoord == 2

\* -------------------------------------------------------- program constants
\* main.py: `if failure_count > 10`
Threshold == 10

NoThread == 0
Free == 0
NoFrame == 0
\* A thread is created by a start() that finds the flag cleared, so between
\* two of them lies a stop(): MaxCalls calls create at most this many threads.
MaxThreads == (MaxCalls + 1) \div 2
Threads == 1..MaxThreads
Observers == {"view", "telemetry"}

\* What the detector and the pose solver make of a frame: one record per
\* detected marker, in the detector's order; ok is solvePnP's success flag.
Det(i, ok, d) == [id |-> i, ok |-> ok, dist |-> d]

Scenes ==
    << <<>>,
       << Det(1, TRUE, 2), Det(2, TRUE, 1) >>,
       << Det(1, FALSE, 2), Det(3, TRUE, 1) >> >>

Frames == 1..Len(Scenes)

VARIABLES
    \* Controller fields
    running, thread, start_time,
    frame_count, detection_count, total_detections, successful_poses,
    latest_markers, latest_annotated_frame, latest_vehicle_status,
    \* Movements.movements
    movements,
    \* Interface.observers and Interface._lock (its holder)
    observers, lockHolder,
    \* which collaborators the Controller was constructed with
    cfg,
    \* Camera.is_connected, VehicleInterface.is_connected
    camera_is_connected, vehicle_is_connected,
    \* loop threads: position and locals
    pc, loc,
    \* the foreground context: position, start()/stop() calls made, and the
    \* last of them: which, how it returned, the flag it found
    ui, calls, lastCall,
    \* history: iterations begun, threads created, failed frame acquisitions,
    \* Camera.reconnect calls
    iters, started, frame_failures, reconnect_calls,
    \* detection_loop (main.py)
    dl,
    \* a client of the Movements log: the events it appended, and what its
    \* last call was and returned
    ml,
    \* a foreground reader of the Controller: its last call, what it returned,
    \* and the loop threads that were then between the first and the last
    \* write of an iteration
    rd,
    \* the domain layer (domain/models.py): the objects constructed, and the
    \* last constructor call with its outcome
    dm,
    \* the last call of a function of the domain, vision and tracking layers:
    \* which, its arguments, what it returned or raised
    fn,
    \* MainView: its current_* fields, _update_lock, and the threads in
    \* update() and _update_gui()
    mv

ctlVars == <<running, thread, start_time>>
statVars == <<frame_count, detection_count, total_detections, successful_poses>>
latestVars == <<latest_markers, latest_annotated_frame, latest_vehicle_status>>
busVars == <<observers, lockHolder>>
devVars == <<cfg, camera_is_connected, vehicle_is_connected>>
thVars == <<pc, loc>>
uiVars == <<ui, calls, lastCall>>
histVars == <<iters, started, frame_failures, reconnect_calls>>

vars == <<ctlVars, statVars, latestVars, movements, busVars, devVars, thVars,
          uiVars, histVars, dl, ml, rd, dm, fn, mv>>

\* ----------------------------------------------------------------- helpers
Alive(t) == pc[t] \notin {"unborn", "dead"}

AliveThreads == {t \in Threads : Alive(t)}

NoStatus == [connected |-> FALSE, markers_detected |-> -1, target_marker |-> 0]

NoStats ==
    [frame_count |-> -1, detection_count |-> -1, total_detections |-> -1,
     successful_poses |-> -1, start_time |-> -1, movement_count |-> -1]

NoData == [frame |-> NoFrame, markers |-> <<>>, vehicle_status |-> NoStatus,
           statistics |-> NoStats]

InitLoc ==
    [frame |-> NoFrame, frame_count_read |-> 0,
     cycleMarkers |-> <<>>, cycleDetected |-> FALSE,
     cycleSends |-> 0, cycleAppended |-> 0, data |-> NoData,
     copy |-> <<>>, idx |-> 1, delivered |-> <<>>, raisedSeen |-> FALSE,
     cycleEnd |-> "none"]

\* The locals once an iteration is over: only how it ended is remembered.
EndCycle(how) == [InitLoc EXCEPT !.cycleEnd = how]

\* ImageTreatment.get_corner_position: the marker records of the detections
\* whose pose was solved. `corners` is the index of the detection whose
\* corners the record carries: corners[len(markers_info)].
RECURSIVE MarkersInfo(_, _, _)
MarkersInfo(scene, i, acc) ==
    IF i > Len(scene) THEN acc
    ELSE IF ~scene[i].ok THEN MarkersInfo(scene, i + 1, acc)
    ELSE MarkersInfo(scene, i + 1,
            Append(acc, [id |-> scene[i].id, distance |-> scene[i].dist,
                         corners |-> Len(acc) + 1]))

get_corner_position(frame) ==
    LET scene == Scenes[frame]
        markers == MarkersInfo(scene, 1, <<>>)
    IN [frame |-> frame, markers |-> markers,
        total_detections |-> Len(scene),
        successful_poses |-> Len(markers)]

\* min(markers, key=lambda m: m['distance']): the first of the closest.
Closest(markers) ==
    LET best == CHOOSE i \in 1..Len(markers) :
                  /\ \A j \in 1..Len(markers) :
                        markers[i].distance <= markers[j].distance
                  /\ \A j \in 1..(i - 1) :
                        markers[j].distance > markers[i].distance
    IN markers[best]

\* A deque without maxlen.
AppendedUnbounded(q, m) == Append(q, m)

\* Movements.add_movement on deque(maxlen=max_size)
add_movement(q, m) ==
    IF Len(q) >= MaxSize THEN Append(Tail(q), m) ELSE Append(q, m)

\* self.movements[0]
OldestMovement(q) == IF q = <<>> THEN <<>> ELSE <<q[1]>>

\* Movements.get_latest_movement: `self.movements[-1] if self.movements else
\* None`, the event in a sequence of its own, empty for None
get_latest_movement(q) == IF q = <<>> THEN <<>> ELSE <<q[Len(q)]>>

\* Movements.get_count
get_count(q) == Len(q)

\* lst[-count:] on a Python list, for count >= 0: the slice starts at
\* len - count, not below 0, when -count is negative, and at 0 when it is 0.
SliceFromMinus(lst, count) ==
    LET start == IF count = 0 THEN 0
                 ELSE IF Len(lst) - count < 0 THEN 0 ELSE Len(lst) - count
    IN SubSeq(lst, start + 1, Len(lst))

\* Movements.get_movements(count): count is a sequence, empty for None
get_movements(q, count) ==
    IF count = <<>> THEN q ELSE SliceFromMinus(q, count[1])

\* VehicleInterface.get_vehicle_feedback
get_vehicle_feedback(markers) ==
    [connected |-> vehicle_is_connected,
     markers_detected |-> Len(markers),
     target_marker |-> IF Len(markers) > 0 THEN Closest(markers).id ELSE 0]

\* Controller.get_statistics (the counters; rates derive from them)
get_statistics ==
    [frame_count |-> frame_count, detection_count |-> detection_count,
     total_detections |-> total_detections,
     successful_poses |-> successful_poses,
     start_time |-> start_time,
     movement_count |-> Len(movements)]

SeqToSet(s) == {s[i] : i \in 1..Len(s)}

\* list.remove(x): drops the first occurrence
RECURSIVE Remove(_, _)
Remove(s, x) ==
    IF s = <<>> THEN <<>>
    ELSE IF Head(s) = x THEN Tail(s)
    ELSE <<Head(s)>> \o Remove(Tail(s), x)

\* -------------------------------------------------------------------- Init
\* Controller(waiter, camera, image_treatment, vehicle_interface): each of the
\* three collaborators may be None. Without a camera the loop body does
\* nothing, and without image treatment the vehicle is never used, so one
\* configuration stands for each of those cases.
Configs ==
    { [camera |-> TRUE, image_treatment |-> TRUE, vehicle |-> TRUE],
      [camera |-> TRUE, image_treatment |-> TRUE, vehicle |-> FALSE],
      [camera |-> TRUE, image_treatment |-> FALSE, vehicle |-> FALSE],
      [camera |-> FALSE, image_treatment |-> TRUE, vehicle |-> TRUE] }

\* detection_loop is entered with an opened camera (main() returns before it
\* otherwise) and failure_count = 0. Besides the function's locals the record
\* keeps history: iterations begun, pose failures and forced reopenings since
\* the last successful estimation, guidance messages sent in the current
\* iteration, whether the user asked to quit, and why the loop was left.
DLInit ==
    [pc |-> "read", source_open |-> TRUE, failure_count |-> 0, markers |-> 0,
     cycles |-> 0, fails_run |-> 0, forced_run |-> 0, cycle_sends |-> 0,
     stop_requested |-> FALSE, exit_cause |-> "none"]

\* No call made on the log yet. latest is the returned event in a sequence of
\* its own, empty for None; asked is the argument of the last get_movements,
\* empty for None, and returned the list it gave.
MLInit ==
    [history |-> <<>>, op |-> "none", latest |-> <<>>, count |-> 0,
     asked |-> <<>>, returned |-> <<>>]

\* A float: NaN, an infinity, or a finite number (a whole number of
\* centimetres in the model).
Float(kind, val) == [kind |-> kind, val |-> val]

NaN == Float("nan", 0)
PosInf == Float("posinf", 0)
NegInf == Float("neginf", 0)

DMInit ==
    [objects |-> {},
     last |-> [marker_id |-> <<>>, marker_length_m |-> Float("finite", 0),
               result |-> "none"]]

\* No call made yet.
FNInit == [op |-> "none", args |-> <<>>, result |-> <<>>]

\* The Tk main thread, which runs _update_gui, beside the loop threads.
GuiThread == MaxThreads + 1

\* MainView.__init__: the four current_* fields hold the values given at
\* construction (snapshot 0) and _update_lock is free. A snapshot is known by
\* the rank of the update() call that brought it. upd is where each loop
\* thread is in update() and with which snapshot, gui where the main thread is
\* in _update_gui and what it has read; updates counts the update() calls
\* begun, completed is the last one that returned, pending the _update_gui
\* callbacks scheduled with root.after and not yet run.
MVInit ==
    [lock |-> Free,
     current_frame |-> 0, current_markers |-> 0,
     current_vehicle_status |-> 0, current_statistics |-> 0,
     upd |-> [t \in Threads |-> [pc |-> "idle", data |-> 0]],
     gui |-> [pc |-> "idle", frame |-> 0, markers |-> 0, status |-> 0,
              stats |-> 0],
     updates |-> 0, completed |-> 0, pending |-> 0]

RDInit == [op |-> "none", frame |-> NoFrame, statistics |-> NoStats, mid |-> {}]

InitWith(registries) ==
    /\ running = FALSE
    /\ thread = NoThread
    /\ start_time = 0
    /\ frame_count = 0
    /\ detection_count = 0
    /\ total_detections = 0
    /\ successful_poses = 0
    /\ latest_markers = <<>>
    /\ latest_annotated_frame = NoFrame
    /\ latest_vehicle_status = NoStatus
    /\ movements = <<>>
    /\ observers \in registries
    /\ lockHolder = Free
    /\ cfg \in Configs
    /\ camera_is_connected = FALSE
    /\ vehicle_is_connected = FALSE
    /\ pc = [t \in Threads |-> "unborn"]
    /\ loc = [t \in Threads |-> InitLoc]
    /\ ui = "idle"
    /\ calls = 0
    /\ lastCall = [op |-> "none", res |-> "none", was_running |-> FALSE]
    /\ iters = 0
    /\ started = 0
    /\ frame_failures = 0
    /\ reconnect_calls = 0
    /\ dl = DLInit
    /\ ml = MLInit
    /\ rd = RDInit
    /\ dm = DMInit
    /\ fn = FNInit
    /\ mv = MVInit

\* After construction: Interface() has no observer.
Init == InitWith({<<>>})

\* After the application is wired: the views have subscribed.
WiredInit == InitWith({<<>>, <<"view", "telemetry">>})

\* ------------------------------------------------- the foreground context
\* Controller.init: connects the camera and the vehicle when they are
\* configured and not yet connected (it returns False only when the camera
\* does not open; its callers decide on that whether to call start()).
ControllerInit ==
    /\ ui = "idle"
    /\ \E camOk \in BOOLEAN, vehOk \in BOOLEAN :
         LET camTry == cfg.camera /\ ~camera_is_connected
             vehTry == cfg.vehicle /\ ~vehicle_is_connected
         IN /\ ~camTry => camOk
            /\ ~vehTry => vehOk
            /\ camera_is_connected' =
                  (IF camTry THEN camOk ELSE camera_is_connected)
            /\ vehicle_is_connected' =
                  (IF vehTry THEN vehOk ELSE vehicle_is_connected)
    /\ UNCHANGED <<ctlVars, statVars, latestVars, movements, busVars, cfg,
                   thVars, uiVars, histVars, dl, ml, rd, dm, fn, mv>>

\* A start() without the guard on the flag.
StartAlwaysSpawns(isRunning) == TRUE

\* Controller.start, `if self.running: ... return`: whether a thread is spawned.
StartSpawns(isRunning) == ~isRunning

\* Controller.start. time.time() is the number of the call, which grows.
Start ==
    /\ ui = "idle"
    /\ calls < MaxCalls
    /\ calls' = calls + 1
    /\ IF StartSpawns(running)
       THEN /\ started < MaxThreads
            /\ running' = TRUE
            /\ start_time' = calls + 1
            /\ thread' = started + 1
            /\ started' = started + 1
            /\ pc' = [pc EXCEPT ![started + 1] = "check"]
            /\ lastCall' = [op |-> "start", res |-> "started", was_running |-> running]
       ELSE /\ lastCall' = [op |-> "start", res |-> "warned", was_running |-> running]
            /\ UNCHANGED <<running, start_time, thread, started, pc>>
    /\ UNCHANGED <<statVars, latestVars, movements, busVars, devVars, loc, ui,
                   iters, frame_failures, reconnect_calls, dl, ml, rd, dm, fn, mv>>

\* A stop() that toggles the flag.
StopTogglesFlag(isRunning) == ~isRunning

\* Controller.stop, `self.running = False`
StopFlag(isRunning) == FALSE

\* Controller.stop up to thread.join: the flag is cleared and, when a thread
\* object exists, the caller waits for it.
StopBegin ==
    /\ ui = "idle"
    /\ calls < MaxCalls
    /\ calls' = calls + 1
    /\ running' = StopFlag(running)
    /\ IF thread # NoThread
       THEN /\ ui' = "joining"
            /\ lastCall' = [op |-> "stop", res |-> "joining", was_running |-> running]
       ELSE /\ ui' = "idle"
            /\ lastCall' = [op |-> "stop", res |-> "returned", was_running |-> running]
    /\ UNCHANGED <<thread, start_time, statVars, latestVars, movements, busVars,
                   devVars, thVars, histVars, dl, ml, rd, dm, fn, mv>>

\* Positions at which a loop thread is inside a call into the camera, the
\* detector, the vehicle or an observer, which may last longer than the join
\* timeout; the loop's own sleeps (0.1 s, 1/30 s) do not.
BlockingPcs ==
    {"get_frame", "detect", "send", "status", "publish", "pub_invoke"}

\* thread.join(timeout=2.0) returns: the thread has exited, or the wait timed out.
StopReturn ==
    /\ ui = "joining"
    /\ \/ /\ pc[thread] = "dead"
          /\ lastCall' = [lastCall EXCEPT !.res = "joined"]
       \/ /\ pc[thread] \in BlockingPcs
          /\ lastCall' = [lastCall EXCEPT !.res = "timeout"]
    /\ ui' = "idle"
    /\ UNCHANGED <<ctlVars, statVars, latestVars, movements, busVars, devVars,
                   thVars, calls, histVars, dl, ml, rd, dm, fn, mv>>

\* ------------------------------------------------------ Interface (the bus)
\* An append without the membership test.
AppendedBlindly(obs, o) == Append(obs, o)

\* `if observer not in self.observers: self.observers.append(observer)`
AppendedIfAbsent(obs, o) ==
    IF o \in SeqToSet(obs) THEN obs ELSE Append(obs, o)

\* Interface.subscribe_observer, under the lock
subscribe_observer(o) ==
    /\ lockHolder = Free
    /\ observers' = AppendedIfAbsent(observers, o)
    /\ lockHolder' = Free

\* Interface.unsubscribe_observer, under the lock
unsubscribe_observer(o) ==
    /\ lockHolder = Free
    /\ observers' = IF o \in SeqToSet(observers) THEN Remove(observers, o)
                    ELSE observers
    /\ lockHolder' = Free

\* Interface.get_observer_count, under the lock: a read
get_observer_count ==
    /\ lockHolder = Free
    /\ UNCHANGED busVars

\* The three, called from the foreground context ...
Subscribe(o) ==
    /\ ui = "idle"
    /\ subscribe_observer(o)
    /\ UNCHANGED <<ctlVars, statVars, latestVars, movements, devVars, thVars,
                   uiVars, histVars, dl, ml, rd, dm, fn, mv>>

Unsubscribe(o) ==
    /\ ui = "idle"
    /\ unsubscribe_observer(o)
    /\ UNCHANGED <<ctlVars, statVars, latestVars, movements, devVars, thVars,
                   uiVars, histVars, dl, ml, rd, dm, fn, mv>>

ObserverCount ==
    /\ ui = "idle"
    /\ get_observer_count
    /\ UNCHANGED <<ctlVars, statVars, latestVars, movements, devVars, thVars,
                   uiVars, histVars, dl, ml, rd, dm, fn, mv>>

\* ... and from inside an observer's update(), on the loop thread that is
\* notifying it.
CallbackSubscribe(t, o) ==
    /\ pc[t] = "pub_invoke"
    /\ subscribe_observer(o)
    /\ UNCHANGED <<ctlVars, statVars, latestVars, movements, devVars, thVars,
                   uiVars, histVars, dl, ml, rd, dm, fn, mv>>

CallbackUnsubscribe(t, o) ==
    /\ pc[t] = "pub_invoke"
    /\ unsubscribe_observer(o)
    /\ UNCHANGED <<ctlVars, statVars, latestVars, movements, devVars, thVars,
                   uiVars, histVars, dl, ml, rd, dm, fn, mv>>

CallbackCount(t) ==
    /\ pc[t] = "pub_invoke"
    /\ get_observer_count
    /\ UNCHANGED <<ctlVars, statVars, latestVars, movements, devVars, thVars,
                   uiVars, histVars, dl, ml, rd, dm, fn, mv>>

\* -------------------------------------------------- Controller._run_loop
\* A loop that does not look at the flag.
LoopIgnoresFlag(isRunning) == TRUE

\* `while self.running:`
LoopContinues(isRunning) == isRunning

\* The loop condition. A new iteration starts with fresh locals; without a
\* camera the body does nothing and the loop sleeps until the next tick.
LoopCheck(t) ==
    /\ pc[t] = "check"
    /\ IF LoopContinues(running)
       THEN /\ iters < MaxIter
            /\ iters' = iters + 1
            /\ pc' = [pc EXCEPT ![t] = IF cfg.camera THEN "get_frame" ELSE "check"]
       ELSE /\ pc' = [pc EXCEPT ![t] = "dead"]
            /\ UNCHANGED iters
    /\ loc' = [loc EXCEPT ![t] = InitLoc]
    /\ UNCHANGED <<ctlVars, statVars, latestVars, movements, busVars, devVars,
                   uiVars, started, frame_failures, reconnect_calls, dl, ml, rd, dm, fn, mv>>

\* camera.get_frame() returns a frame, and `self.frame_count += 1` loads the
\* counter: the statement is a load, an addition and a store, and no lock
\* keeps another loop thread from running between them.
GetFrameOk(t) ==
    /\ pc[t] = "get_frame"
    /\ camera_is_connected
    /\ \E f \in Frames :
         loc' = [loc EXCEPT ![t].frame = f, ![t].frame_count_read = frame_count]
    /\ pc' = [pc EXCEPT ![t] = "count_frame"]
    /\ UNCHANGED <<ctlVars, statVars,
                   latestVars, movements, busVars, devVars, uiVars, histVars, dl, ml, rd, dm, fn, mv>>

\* The value `self.frame_count += 1` stores: one more than the value it loaded.
Counted(read, current) == read + 1

\* `self.frame_count += 1` stores.
CountFrame(t) ==
    /\ pc[t] = "count_frame"
    /\ frame_count' = Counted(loc[t].frame_count_read, frame_count)
    /\ pc' = [pc EXCEPT ![t] = "detect"]
    /\ UNCHANGED <<ctlVars, detection_count, total_detections, successful_poses,
                   latestVars, movements, busVars, devVars, loc, uiVars,
                   histVars, dl, ml, rd, dm, fn, mv>>

\* camera.get_frame() returns None (not connected, or the device gave no
\* frame): warning, sleep 0.1 s, `continue`.
GetFrameNone(t) ==
    /\ pc[t] = "get_frame"
    /\ frame_failures' = frame_failures + 1
    /\ loc' = [loc EXCEPT ![t] = EndCycle("skipped")]
    /\ pc' = [pc EXCEPT ![t] = "check"]
    /\ UNCHANGED <<ctlVars, statVars, latestVars, movements, busVars, devVars,
                   uiVars, iters, started, reconnect_calls, dl, ml, rd, dm, fn, mv>>

\* camera.get_frame() raises: `except Exception`, sleep 0.1 s, next tick.
GetFrameRaises(t) ==
    /\ pc[t] = "get_frame"
    /\ camera_is_connected
    /\ loc' = [loc EXCEPT ![t] = EndCycle("except")]
    /\ pc' = [pc EXCEPT ![t] = "check"]
    /\ UNCHANGED <<ctlVars, statVars, latestVars, movements, busVars, devVars,
                   uiVars, histVars, dl, ml, rd, dm, fn, mv>>

\* image_treatment.get_corner_position(frame) and the statistics update; with
\* no image treatment the raw frame becomes the latest frame.
Detect(t) ==
    /\ pc[t] = "detect"
    /\ IF cfg.image_treatment
       THEN LET result == get_corner_position(loc[t].frame)
            IN /\ latest_annotated_frame' = result.frame
               /\ latest_markers' = result.markers
               /\ total_detections' = total_detections + result.total_detections
               /\ successful_poses' = successful_poses + result.successful_poses
               /\ detection_count' =
                     (IF Len(result.markers) > 0 THEN detection_count + 1
                      ELSE detection_count)
               /\ loc' = [loc EXCEPT ![t].cycleMarkers = result.markers,
                                     ![t].cycleDetected = TRUE]
               /\ pc' = [pc EXCEPT ![t] = "send"]
       ELSE /\ latest_annotated_frame' = loc[t].frame
            /\ pc' = [pc EXCEPT ![t] = "publish"]
            /\ UNCHANGED <<latest_markers, total_detections, successful_poses,
                           detection_count, loc>>
    /\ UNCHANGED <<ctlVars, frame_count, latest_vehicle_status, movements,
                   busVars, devVars, uiVars, histVars, dl, ml, rd, dm, fn, mv>>

\* get_corner_position raises (an OpenCV error): caught at the iteration
\* boundary.
DetectRaises(t) ==
    /\ pc[t] = "detect"
    /\ cfg.image_treatment
    /\ loc' = [loc EXCEPT ![t] = EndCycle("except")]
    /\ pc' = [pc EXCEPT ![t] = "check"]
    /\ UNCHANGED <<ctlVars, statVars, latestVars, movements, busVars, devVars,
                   uiVars, histVars, dl, ml, rd, dm, fn, mv>>

\* A send that does not look at the vehicle.
SendsWheneverDetected(markers) == Len(markers) > 0

\* The guard of the send: a vehicle is configured and connected, and the latest
\* markers are not empty (VehicleInterface.move_vehicle checks the same again).
SendsGuidance(markers) ==
    /\ cfg.vehicle
    /\ vehicle_is_connected
    /\ Len(markers) > 0

\* The movement recorded after a successful send.
MovementOf(markers) ==
    LET closest == Closest(markers)
    IN [type |-> "landing_target",
        marker_id |-> closest.id, distance |-> closest.distance]

\* A failed send taken as the end of the iteration.
FailedSendEndsCycle(success) == IF success THEN "status" ELSE "check"

\* Where the iteration goes once move_vehicle has returned: it returns False on
\* a failure (send_landing_target catches the exception), and the iteration
\* goes on to the vehicle status and the snapshot either way.
NextAfterSend(success) == "status"

\* vehicle_interface.move_vehicle(self.latest_markers), and the movement
\* appended when it reports success.
Send(t) ==
    /\ pc[t] = "send"
    /\ IF SendsGuidance(latest_markers)
       THEN \E success \in BOOLEAN :
              /\ movements' =
                    (IF success
                     THEN add_movement(movements, MovementOf(latest_markers))
                     ELSE movements)
              /\ loc' = [loc EXCEPT
                           ![t].cycleSends = @ + 1,
                           ![t].cycleAppended = IF success THEN @ + 1 ELSE @]
              /\ pc' = [pc EXCEPT ![t] = NextAfterSend(success)]
       ELSE /\ pc' = [pc EXCEPT ![t] = "status"]
            /\ UNCHANGED <<movements, loc>>
    /\ UNCHANGED <<ctlVars, statVars, latestVars, busVars, devVars, uiVars,
                   histVars, dl, ml, rd, dm, fn, mv>>

\* On the image-treatment path, when a vehicle is configured:
\* `self.latest_vehicle_status = get_vehicle_feedback(self.latest_markers)`
VehicleStatus(t) ==
    /\ pc[t] = "status"
    /\ latest_vehicle_status' =
          (IF cfg.vehicle THEN get_vehicle_feedback(latest_markers)
           ELSE latest_vehicle_status)
    /\ pc' = [pc EXCEPT ![t] = "publish"]
    /\ UNCHANGED <<ctlVars, statVars, latest_markers, latest_annotated_frame,
                   movements, busVars, devVars, loc, uiVars, histVars, dl, ml,
                   rd, dm, fn, mv>>

\* The snapshot handed to trigger_observers: the latest frame, markers and
\* vehicle status as they are now, and get_statistics().
Publish(t) ==
    /\ pc[t] = "publish"
    /\ loc' = [loc EXCEPT ![t].data =
                  [frame |-> latest_annotated_frame,
                   markers |-> latest_markers,
                   vehicle_status |-> latest_vehicle_status,
                   statistics |-> get_statistics]]
    /\ pc' = [pc EXCEPT ![t] = "pub_lock"]
    /\ UNCHANGED <<ctlVars, statVars, latestVars, movements, busVars, devVars,
                   uiVars, histVars, dl, ml, rd, dm, fn, mv>>

\* ------------------------------------------- Interface.trigger_observers
\* `with self._lock:` entered
PubAcquire(t) ==
    /\ pc[t] = "pub_lock"
    /\ lockHolder = Free
    /\ lockHolder' = t
    /\ pc' = [pc EXCEPT ![t] = "pub_copy"]
    /\ UNCHANGED <<ctlVars, statVars, latestVars, movements, observers, devVars,
                   loc, uiVars, histVars, dl, ml, rd, dm, fn, mv>>

\* The notifications made inside the with-block.
LockKeptForNotify(t) == t

\* Who holds the lock once the copy is made: the with-block ends there.
LockAfterCopy(t) == Free

\* The list the notifications go to.
Recipients(t) == loc[t].copy

\* `observers_copy = self.observers.copy()`, and the with-block left
PubCopy(t) ==
    /\ pc[t] = "pub_copy"
    /\ lockHolder' = LockAfterCopy(t)
    /\ loc' = [loc EXCEPT ![t] =
                  IF observers = <<>> THEN EndCycle("published")
                  ELSE [@ EXCEPT !.copy = observers, !.idx = 1,
                                 !.delivered = <<>>]]
    /\ pc' = [pc EXCEPT ![t] = IF observers = <<>> THEN "check" ELSE "pub_invoke"]
    /\ UNCHANGED <<ctlVars, statVars, latestVars, movements, observers, devVars,
                   uiVars, histVars, dl, ml, rd, dm, fn, mv>>

\* A notification loop without the try/except around update().
AbortOnRaise(raised, i, n) ==
    IF raised \/ i >= n THEN "check" ELSE "pub_invoke"

\* Where the loop over the copy goes after notifying its i-th of n observers:
\* a raising observer is logged and the loop goes on.
NextAfterNotify(raised, i, n) ==
    IF i < n THEN "pub_invoke" ELSE "check"

\* One pass of `for observer in observers_copy`: update(data) is called and
\* may raise (every observer of the model has an update method).
Notify(t) ==
    /\ pc[t] = "pub_invoke"
    /\ LET i == loc[t].idx
           n == Len(Recipients(t))
           o == Recipients(t)[i]
       IN /\ i <= n
          /\ \E raised \in BOOLEAN :
               LET next == NextAfterNotify(raised, i, n)
               IN /\ loc' = [loc EXCEPT ![t] =
                               IF next = "check" THEN EndCycle("published")
                               ELSE [@ EXCEPT
                                       !.delivered = Append(@, o),
                                       !.raisedSeen = @ \/ raised,
                                       !.idx = i + 1]]
                  /\ pc' = [pc EXCEPT ![t] = next]
    /\ UNCHANGED <<ctlVars, statVars, latestVars, movements, busVars, devVars,
                   uiVars, histVars, dl, ml, rd, dm, fn, mv>>

LoopStep(t) ==
    \/ LoopCheck(t)
    \/ GetFrameOk(t)
    \/ CountFrame(t)
    \/ GetFrameNone(t)
    \/ GetFrameRaises(t)
    \/ Detect(t)
    \/ DetectRaises(t)
    \/ Send(t)
    \/ VehicleStatus(t)
    \/ Publish(t)
    \/ PubAcquire(t)
    \/ PubCopy(t)
    \/ Notify(t)

Next ==
    \/ ControllerInit
    \/ Start
    \/ StopBegin
    \/ StopReturn
    \/ ObserverCount
    \/ \E o \in Observers : Subscribe(o)
    \/ \E o \in Observers : Unsubscribe(o)
    \/ \E t \in Threads : LoopStep(t)
    \/ \E t \in Threads, o \in Observers : CallbackSubscribe(t, o)
    \/ \E t \in Threads, o \in Observers : CallbackUnsubscribe(t, o)
    \/ \E t \in Threads : CallbackCount(t)

\* The whole system: every configuration, the registry changing at any time.
FullSpec == Init /\ [][Next]_vars

\* The Controller's life cycle and its loop with the registry left as wired.
LifeNext ==
    \/ ControllerInit
    \/ Start
    \/ StopBegin
    \/ StopReturn
    \/ \E t \in Threads : LoopStep(t)

Spec == WiredInit /\ [][LifeNext]_vars

\* The observer bus under a Controller that publishes raw frames (a camera,
\* no image treatment, no vehicle): what is published does not matter to the
\* registry, who is subscribed and when does.
BusInit ==
    /\ InitWith({<<>>})
    /\ cfg = [camera |-> TRUE, image_treatment |-> FALSE, vehicle |-> FALSE]

BusLoopStep(t) ==
    \/ LoopCheck(t)
    \/ GetFrameOk(t)
    \/ CountFrame(t)
    \/ GetFrameNone(t)
    \/ GetFrameRaises(t)
    \/ Detect(t)
    \/ Publish(t)
    \/ PubAcquire(t)
    \/ PubCopy(t)
    \/ Notify(t)

BusNext ==
    \/ ControllerInit
    \/ Start
    \/ StopBegin
    \/ StopReturn
    \/ ObserverCount
    \/ \E o \in Observers : Subscribe(o)
    \/ \E o \in Observers : Unsubscribe(o)
    \/ \E t \in Threads : BusLoopStep(t)
    \/ \E t \in Threads, o \in Observers : CallbackSubscribe(t, o)
    \/ \E t \in Threads, o \in Observers : CallbackUnsubscribe(t, o)
    \/ \E t \in Threads : CallbackCount(t)

BusSpec == BusInit /\ [][BusNext]_vars


\* ------------------------------------------------- detection_loop (main.py)
ctlAll == <<ctlVars, statVars, latestVars, movements, busVars, devVars, thVars,
            uiVars, histVars, ml, rd, dm, fn, mv>>

\* read_frame(source) returns a frame, in which the detector will find n markers.
DLReadOk ==
    /\ dl.pc = "read"
    /\ dl.cycles < MaxDLCycles
    /\ \E n \in 0..MaxMarkers :
         dl' = [dl EXCEPT !.pc = "process", !.markers = n, !.cycle_sends = 0,
                          !.cycles = @ + 1]
    /\ UNCHANGED ctlAll

\* read_frame returns None: the camera is released and reopened after 0.5 s;
\* the loop goes on when that succeeds and is left when it does not.
DLReadNone ==
    /\ dl.pc = "read"
    /\ dl.cycles < MaxDLCycles
    /\ \E reopened \in BOOLEAN :
         dl' = [dl EXCEPT !.cycles = @ + 1,
                          !.cycle_sends = 0,
                          !.source_open = reopened,
                          !.pc = IF reopened THEN "read" ELSE "exited",
                          !.exit_cause =
                              IF reopened THEN @ ELSE "reopen_failed"]
    /\ UNCHANGED ctlAll

\* read_frame raises: `except Exception`, 0.1 s, `continue`.
DLReadRaises ==
    /\ dl.pc = "read"
    /\ dl.cycles < MaxDLCycles
    /\ dl' = [dl EXCEPT !.cycles = @ + 1, !.cycle_sends = 0]
    /\ UNCHANGED ctlAll

\* cvtColor or detectMarkers raises: the outer handler, `continue`.
DLDetectRaises ==
    /\ dl.pc = "process"
    /\ dl' = [dl EXCEPT !.pc = "read"]
    /\ UNCHANGED ctlAll

\* No marker in the frame: nothing is estimated, the counter is left alone.
DLNoMarker ==
    /\ dl.pc = "process"
    /\ dl.markers = 0
    /\ dl' = [dl EXCEPT !.pc = "publish"]
    /\ UNCHANGED ctlAll

\* The poses are estimated; one LANDING_TARGET per marker is sent when a
\* vehicle is there (send_land_message_mav swallows its own failures); the
\* counter is reset.
DLPoseOk(send_mav) ==
    /\ dl.pc = "process"
    /\ dl.markers > 0
    /\ dl' = [dl EXCEPT !.pc = "publish",
                        !.cycle_sends = IF send_mav THEN dl.markers ELSE 0,
                        !.failure_count = 0,
                        !.fails_run = 0,
                        !.forced_run = 0]
    /\ UNCHANGED ctlAll

\* The comparison off by one.
ForceReconnectAtThreshold(count) == count >= Threshold

\* `if failure_count > 10`, on the counter just incremented
ForceReconnect(count) == count > Threshold

\* The estimation raises: the counter is incremented and, past the threshold,
\* the camera is released and reopened and the counter reset, before the loop
\* is left if the reopening failed.
DLPoseFails ==
    /\ dl.pc = "process"
    /\ dl.markers > 0
    /\ LET count == dl.failure_count + 1
       IN IF ForceReconnect(count)
          THEN \E reopened \in BOOLEAN :
                 dl' = [dl EXCEPT !.failure_count = 0,
                                  !.fails_run = @ + 1,
                                  !.forced_run = @ + 1,
                                  !.source_open = reopened,
                                  !.pc = IF reopened THEN "publish"
                                         ELSE "exited",
                                  !.exit_cause =
                                      IF reopened THEN @ ELSE "reopen_failed"]
          ELSE dl' = [dl EXCEPT !.failure_count = count,
                                !.fails_run = @ + 1,
                                !.pc = "publish"]
    /\ UNCHANGED ctlAll

\* latest_frame is replaced under frame_lock; with a window, the key q leaves
\* the loop.
DLPublish ==
    /\ dl.pc = "publish"
    /\ \E quit \in BOOLEAN :
         dl' = [dl EXCEPT !.pc = IF quit THEN "exited" ELSE "read",
                          !.stop_requested = quit,
                          !.exit_cause = IF quit THEN "quit" ELSE @]
    /\ UNCHANGED ctlAll

\* KeyboardInterrupt, anywhere in the loop
DLInterrupt ==
    /\ dl.pc # "exited"
    /\ dl' = [dl EXCEPT !.pc = "exited", !.stop_requested = TRUE,
                        !.exit_cause = "interrupt"]
    /\ UNCHANGED ctlAll

DLNext ==
    \/ DLReadOk
    \/ DLReadNone
    \/ DLReadRaises
    \/ DLDetectRaises
    \/ DLNoMarker
    \/ \E send_mav \in BOOLEAN : DLPoseOk(send_mav)
    \/ DLPoseFails
    \/ DLPublish
    \/ DLInterrupt

DLSpec == Init /\ [][DLNext]_vars

\* ------------------------------------------- readers of the Controller
\* An iteration writes the shared fields one after the other, from
\* `self.frame_count += 1` to `self.latest_vehicle_status = ...`, with no lock
\* in the Controller: the threads that have made the first of these writes
\* and not yet the last.
MidUpdate ==
    {t \in Threads : \/ pc[t] \in {"detect", "send"}
                     \/ pc[t] = "status" /\ cfg.vehicle}

\* Controller.get_frame(), from the foreground: `return self.latest_annotated_frame`
GetFrame ==
    /\ rd' = [rd EXCEPT !.op = "get_frame", !.frame = latest_annotated_frame,
                        !.mid = MidUpdate]
    /\ UNCHANGED <<ctlVars, statVars, latestVars, movements, busVars, devVars,
                   thVars, uiVars, histVars, dl, ml, dm, fn, mv>>

\* Controller.get_statistics(), from the foreground
GetStatistics ==
    /\ rd' = [rd EXCEPT !.op = "get_statistics", !.statistics = get_statistics,
                        !.mid = MidUpdate]
    /\ UNCHANGED <<ctlVars, statVars, latestVars, movements, busVars, devVars,
                   thVars, uiVars, histVars, dl, ml, dm, fn, mv>>

\* A Controller with a camera and image treatment, no vehicle, and one view
\* subscribed.
ReadInit ==
    /\ InitWith({<<"view">>})
    /\ cfg = [camera |-> TRUE, image_treatment |-> TRUE, vehicle |-> FALSE]

ReadNext ==
    \/ LifeNext
    \/ GetFrame
    \/ GetStatistics

\* The Controller's life cycle with a foreground reader beside it.
ReadSpec == ReadInit /\ [][ReadNext]_vars

\* --------------------------------------------- domain/models.py
\* np.isfinite(v)
isfinite(v) == v.kind = "finite"

\* v <= 0.0 on floats: false for NaN and +inf, true for -inf.
LessEqZero(v) ==
    \/ v.kind = "neginf"
    \/ v.kind = "finite" /\ v.val <= 0

\* The length test without np.isfinite.
NotPositive(v) == LessEqZero(v)

\* `not np.isfinite(self.marker_length_m) or self.marker_length_m <= 0.0`
InvalidMarkerLength(v) == ~isfinite(v) \/ LessEqZero(v)

\* LandingTarget.__post_init__: what the construction raises, or "ok". A
\* marker_id is a sequence: empty for None, else the identifier alone.
LandingTarget(marker_id, marker_length_m) ==
    IF marker_id # <<>> /\ marker_id[1] < 0 THEN "ValueError"
    ELSE IF InvalidMarkerLength(marker_length_m) THEN "InvalidMarkerLengthError"
    ELSE "ok"

\* The arguments tried.
MarkerIds == {<<>>} \cup {<<i>> : i \in -1..MaxMarkers}

Lengths ==
    {NaN, PosInf, NegInf} \cup {Float("finite", v) : v \in -MaxLength..MaxLength}

domRest == <<ctlVars, statVars, latestVars, movements, busVars, devVars,
             thVars, uiVars, histVars, dl, ml, rd, fn, mv>>

\* LandingTarget(marker_id, marker_length_m) is called: the object exists
\* when __post_init__ raised nothing.
NewLandingTarget(marker_id, marker_length_m) ==
    LET result == LandingTarget(marker_id, marker_length_m)
        object == [marker_id |-> marker_id, marker_length_m |-> marker_length_m]
    IN /\ result = "ok" =>
             (object \in dm.objects \/ Cardinality(dm.objects) < MaxObjects)
       /\ dm' = [objects |-> IF result = "ok" THEN dm.objects \cup {object}
                             ELSE dm.objects,
                 last |-> [marker_id |-> marker_id,
                           marker_length_m |-> marker_length_m,
                           result |-> result]]
       /\ UNCHANGED domRest

DomainNext ==
    \E marker_id \in MarkerIds, marker_length_m \in Lengths :
        NewLandingTarget(marker_id, marker_length_m)

DomainSpec == Init /\ [][DomainNext]_vars

\* An ndarray as np.asarray gives it: its shape, its dtype kind, and its
\* elements in row-major order.
ndarray(shape, kind, elems) == [shape |-> shape, kind |-> kind, elems |-> elems]

RECURSIVE Size(_)
Size(shape) == IF shape = <<>> THEN 1 ELSE Head(shape) * Size(Tail(shape))

\* np.any(np.isfinite(a))
AnyFinite(a) == \E i \in 1..Len(a.elems) : isfinite(a.elems[i])

\* np.all(np.isfinite(a))
AllFinite(a) == \A i \in 1..Len(a.elems) : isfinite(a.elems[i])

\* CalibrationData.__post_init__: what the construction raises, or "ok".
CalibrationData(camera_matrix, dist_coeffs) ==
    LET k == camera_matrix
        d == dist_coeffs
    IN IF k.shape # <<3, 3>> THEN "InvalidCalibrationError"
       ELSE IF k.kind \notin {"f", "i"} THEN "InvalidCalibrationError"
       ELSE IF ~(\/ Len(d.shape) = 2 /\ d.shape[1] = 1
                 \/ Len(d.shape) = 1) THEN "InvalidCalibrationError"
       ELSE IF ~AllFinite(k) THEN "InvalidCalibrationError"
       ELSE IF ~AllFinite(d) THEN "InvalidCalibrationError"
       ELSE "ok"

\* CalibrationRepository.load_report(file_path). A file is a sequence: empty
\* when the path is None or does not exist, else the arrays np.load gives.
load_report(file) ==
    IF file = <<>> THEN "FileNotFoundError"
    ELSE CalibrationData(file[1].camera_matrix,
                         file[1].camera_distortion_matrix)

\* The arrays tried: every element 1.0 (or 1), but for at most one of them.
Filled(shape, kind) ==
    ndarray(shape, kind, [i \in 1..Size(shape) |-> Float("finite", 1)])

WithElement(a, i, v) == [a EXCEPT !.elems[i] = v]

CameraMatrices ==
    LET shapes == {<<3, 3>>, <<2, 3>>, <<3, 4>>, <<9>>, <<3, 3, 1>>}
    IN {Filled(sh, kind) : sh \in shapes, kind \in {"f", "i", "U"}}
       \cup {WithElement(Filled(<<3, 3>>, "f"), i, v) :
                i \in 1..9, v \in {NaN, PosInf, NegInf}}
       \cup {WithElement(Filled(sh, "f"), 1, NaN) : sh \in shapes}

DistCoeffs ==
    LET shapes == {<<5>>, <<1, 5>>, <<2, 5>>, <<1, 1, 5>>, <<>>}
    IN {Filled(sh, "f") : sh \in shapes}
       \cup {WithElement(Filled(sh, "f"), Size(sh), NaN) : sh \in shapes}

CalibrationFiles ==
    {<<>>} \cup {<<[camera_matrix |-> k, camera_distortion_matrix |-> d]>> :
                    k \in CameraMatrices, d \in DistCoeffs}

fnRest == <<ctlVars, statVars, latestVars, movements, busVars, devVars,
            thVars, uiVars, histVars, dl, ml, rd, dm, mv>>

\* CalibrationData(camera_matrix=k, dist_coeffs=d) is called.
NewCalibrationData(k, d) ==
    /\ fn' = [op |-> "CalibrationData", args |-> <<k, d>>,
              result |-> CalibrationData(k, d)]
    /\ UNCHANGED fnRest

\* CalibrationRepository().load_report(file) is called.
LoadReport(file) ==
    /\ fn' = [op |-> "load_report", args |-> <<file>>,
              result |-> load_report(file)]
    /\ UNCHANGED fnRest

CalibNext ==
    \/ \E k \in CameraMatrices, d \in DistCoeffs : NewCalibrationData(k, d)
    \/ \E file \in CalibrationFiles : LoadReport(file)

\* The calibration objects constructed, directly and from files.
CalibSpec == Init /\ [][CalibNext]_vars

\* ------------------------------------------------- the guidance triple
\* Coordinates of a translation vector are whole numbers in the model.
Abs(a) == IF a < 0 THEN -a ELSE a

RECURSIVE Gcd(_, _)
Gcd(a, b) == IF b = 0 THEN a ELSE Gcd(b, a % b)

\* math.atan2(y, x): the angle is kept as the direction it stands for, the
\* point (x, y) in lowest terms; atan2(0, 0) is 0.0, the direction (1, 0).
atan2(y, x) ==
    IF x = 0 /\ y = 0 THEN [x |-> 1, y |-> 0]
    ELSE LET g == Gcd(Abs(x), Abs(y))
         IN [x |-> x \div g, y |-> y \div g]

\* np.linalg.norm(t): the non-negative root of the sum of the squares, kept
\* as that sum.
norm(t) == [squared |-> t[1] * t[1] + t[2] * t[2] + t[3] * t[3]]

\* The angles with atan2's arguments exchanged.
marker_data_swapped(tvec) ==
    [distance |-> norm(tvec),
     angle_x |-> atan2(tvec[3], tvec[1]),
     angle_y |-> atan2(tvec[3], tvec[2])]

\* ImageTreatment.get_corner_position, the record of one marker: distance,
\* angle_x, angle_y from its translation vector t
marker_data(tvec) ==
    [distance |-> norm(tvec),
     angle_x |-> atan2(tvec[1], tvec[3]),
     angle_y |-> atan2(tvec[2], tvec[3])]

\* detection_loop: the arguments of send_land_message_mav(vehicle, ang_x,
\* ang_y, dist) for one marker
land_message(tvec) ==
    LET dist == norm(tvec)
        ang_x == atan2(tvec[1], tvec[3])
        ang_y == atan2(tvec[2], tvec[3])
    IN [angle_x |-> ang_x, angle_y |-> ang_y, distance |-> dist]

Translations ==
    {<<x, y, z>> : x \in -MaxCoord..MaxCoord, y \in -MaxCoord..MaxCoord,
                  z \in -MaxCoord..MaxCoord}

\* get_corner_position derives the triple of a marker whose pose was solved.
DeriveMarkerData(tvec) ==
    /\ fn' = [op |-> "marker_data", args |-> <<tvec>>,
              result |-> marker_data(tvec)]
    /\ UNCHANGED fnRest

\* detection_loop derives the triple of a marker.
DeriveLandMessage(tvec) ==
    /\ fn' = [op |-> "land_message", args |-> <<tvec>>,
              result |-> land_message(tvec)]
    /\ UNCHANGED fnRest

GuidanceNext ==
    \E tvec \in Translations :
        \/ DeriveMarkerData(tvec)
        \/ DeriveLandMessage(tvec)

GuidanceSpec == Init /\ [][GuidanceNext]_vars

\* ------------------------------- OpenCVArucoDetector and TrackingService
\* What ArucoDetector.detectMarkers gives, as zip(ids_flat, corners) pairs it:
\* a sequence of <<marker_id, corners>>, the corners standing for the position
\* of the marker in the detector's output. It is empty when ids is None.
DetectorOutputs ==
    LET idSeqs == UNION {[1..n -> 0..2] : n \in 0..MaxDetections}
    IN {[i \in 1..Len(ids) |-> <<ids[i], i>>] : ids \in idSeqs}

\* The identifier test alone, without the None case.
MatchesIdOnly(marker_id, target_id) ==
    target_id # <<>> /\ marker_id = target_id[1]

\* `target.marker_id is None or marker_id == target.marker_id`
Matches(marker_id, target_id) == target_id = <<>> \/ marker_id = target_id[1]

\* the loop of detect: `for marker_id, c in zip(ids_flat, corners)`
RECURSIVE DetectLoop(_, _, _)
DetectLoop(zipped, target_id, results) ==
    IF zipped = <<>> THEN results
    ELSE DetectLoop(Tail(zipped), target_id,
                    IF Matches(Head(zipped)[1], target_id)
                    THEN Append(results, Head(zipped))
                    ELSE results)

\* OpenCVArucoDetector.detect(frame, target), frame given by what the
\* detector finds in it, target by its marker_id (empty for None)
detect(detected, target_id) ==
    IF Len(detected) = 0 THEN <<>>
    ELSE DetectLoop(detected, target_id, <<>>)

\* The identifiers a LandingTarget can carry: None, or a number >= 0.
TargetIds == {<<>>} \cup {<<i>> : i \in 0..2}

\* How a call ends: with a value returned, or with an exception raised.
Returned(v) == [raised |-> "none", value |-> <<v>>]

Raised(e) == [raised |-> e, value |-> <<>>]

\* Pose3D(x, y, z): InvalidPoseError unless the three are finite
Pose3D(x, y, z) ==
    IF \E v \in {x, y, z} : ~isfinite(v) THEN Raised("InvalidPoseError")
    ELSE Returned([x |-> x, y |-> y, z |-> z])

\* OpenCVPoseEstimator.estimate_pose(corners, ...), given the translation
\* OpenCV computes for these corners
estimate_pose(corners, t) == Pose3D(t[1], t[2], t[3])

\* TrackingResult.not_found(): pose and marker_id are None (empty)
not_found == [status |-> "NOT_FOUND", pose |-> <<>>, marker_id |-> <<>>]

\* TrackingResult.detected(pose, marker_id)
detected_result(pose, marker_id) ==
    [status |-> "DETECTED", pose |-> <<pose>>, marker_id |-> <<marker_id>>]

\* TrackingService.track_once: the TrackingResult returned, or the exception
\* that leaves the call
track_once(detected, target_id, t) ==
    LET detections == detect(detected, target_id)
    IN IF detections = <<>> THEN Returned(not_found)
       ELSE LET marker_id == detections[1][1]
                corners == detections[1][2]
                pose == estimate_pose(corners, t)
            IN IF pose.raised # "none" THEN Raised(pose.raised)
               ELSE Returned(detected_result(pose.value[1], marker_id))

\* The translations OpenCV may compute: finite, or with a NaN in it.
PoseTranslations ==
    {<<Float("finite", 0), Float("finite", 0), Float("finite", 2)>>,
     <<Float("finite", 1), Float("finite", 0), NaN>>}

\* detector.detect(frame, target) is called.
CallDetect(detected, target_id) ==
    /\ fn' = [op |-> "detect", args |-> <<detected, target_id>>,
              result |-> detect(detected, target_id)]
    /\ UNCHANGED fnRest

\* service.track_once() is called.
CallTrackOnce(detected, target_id, t) ==
    /\ fn' = [op |-> "track_once", args |-> <<detected, target_id, t>>,
              result |-> track_once(detected, target_id, t)]
    /\ UNCHANGED fnRest

TrackNext ==
    \E detected \in DetectorOutputs, target_id \in TargetIds :
        \/ CallDetect(detected, target_id)
        \/ \E t \in PoseTranslations : CallTrackOnce(detected, target_id, t)

TrackSpec == Init /\ [][TrackNext]_vars

\* ---------------------------------------------------------------- MainView
mvRest == <<ctlVars, statVars, latestVars, movements, busVars, devVars,
            thVars, uiVars, histVars, dl, ml, rd, dm, fn>>

\* A view whose methods do not take _update_lock.
LockIgnored(lock) == TRUE

\* `with self._update_lock:` can be entered
LockFree(lock) == lock = Free

\* update(data), called by a loop thread through trigger_observers: the lock
\* is taken.
UpdateEnter(t) ==
    /\ mv.upd[t].pc = "idle"
    /\ mv.updates < MaxUpdates
    /\ LockFree(mv.lock)
    /\ mv' = [mv EXCEPT !.lock = t, !.updates = @ + 1,
                        !.upd[t] = [pc |-> "frame", data |-> mv.updates + 1]]
    /\ UNCHANGED mvRest

\* the four assignments of update, one after the other
UpdateWrite(t) ==
    /\ \/ /\ mv.upd[t].pc = "frame"
          /\ mv' = [mv EXCEPT !.current_frame = mv.upd[t].data,
                              !.upd[t].pc = "markers"]
       \/ /\ mv.upd[t].pc = "markers"
          /\ mv' = [mv EXCEPT !.current_markers = mv.upd[t].data,
                              !.upd[t].pc = "status"]
       \/ /\ mv.upd[t].pc = "status"
          /\ mv' = [mv EXCEPT !.current_vehicle_status = mv.upd[t].data,
                              !.upd[t].pc = "statistics"]
       \/ /\ mv.upd[t].pc = "statistics"
          /\ mv' = [mv EXCEPT !.current_statistics = mv.upd[t].data,
                              !.upd[t].pc = "release"]
    /\ UNCHANGED mvRest

\* the lock is released and `self.root.after(0, self._update_gui)` schedules
\* one more callback
UpdateExit(t) ==
    /\ mv.upd[t].pc = "release"
    /\ mv' = [mv EXCEPT !.lock = IF @ = t THEN Free ELSE @,
                        !.completed = mv.upd[t].data,
                        !.pending = @ + 1,
                        !.upd[t].pc = "idle"]
    /\ UNCHANGED mvRest

\* _update_gui, a scheduled callback run by the main thread: the lock is taken.
GuiEnter ==
    /\ mv.gui.pc = "idle"
    /\ mv.pending > 0
    /\ LockFree(mv.lock)
    /\ mv' = [mv EXCEPT !.lock = GuiThread, !.pending = @ - 1,
                        !.gui.pc = "frame"]
    /\ UNCHANGED mvRest

\* the four reads of _update_gui, one after the other
GuiRead ==
    /\ \/ /\ mv.gui.pc = "frame"
          /\ mv' = [mv EXCEPT !.gui.frame = mv.current_frame,
                              !.gui.pc = "markers"]
       \/ /\ mv.gui.pc = "markers"
          /\ mv' = [mv EXCEPT !.gui.markers = mv.current_markers,
                              !.gui.pc = "status"]
       \/ /\ mv.gui.pc = "status"
          /\ mv' = [mv EXCEPT !.gui.status = mv.current_vehicle_status,
                              !.gui.pc = "statistics"]
       \/ /\ mv.gui.pc = "statistics"
          /\ mv' = [mv EXCEPT !.gui.stats = mv.current_statistics,
                              !.gui.pc = "release"]
    /\ UNCHANGED mvRest

\* the lock is released and the widgets are drawn from the four locals
GuiExit ==
    /\ mv.gui.pc = "release"
    /\ mv' = [mv EXCEPT !.lock = IF @ = GuiThread THEN Free ELSE @,
                        !.gui.pc = "idle"]
    /\ UNCHANGED mvRest

ViewNext ==
    \/ \E t \in Threads : UpdateEnter(t) \/ UpdateWrite(t) \/ UpdateExit(t)
    \/ GuiEnter
    \/ GuiRead
    \/ GuiExit

\* The view alone, between the loop threads that notify it and the main
\* thread that draws.
ViewSpec == Init /\ [][ViewNext]_vars

\* ------------------------------------------------- Movements (the log)
\* The movement records a client appends.
Events ==
    {[type |-> "landing_target", marker_id |-> i, distance |-> d] :
        i \in 1..2, d \in 1..2}

logRest == <<ctlVars, statVars, latestVars, busVars, devVars, thVars, uiVars,
             histVars, dl, rd, dm, fn, mv>>

\* Movements.add_movement(e)
LogAdd(e) ==
    /\ Len(ml.history) < MaxAppends
    /\ movements' = add_movement(movements, e)
    /\ ml' = [ml EXCEPT !.history = Append(@, e), !.op = "add"]
    /\ UNCHANGED logRest

\* Movements.get_latest_movement()
LogLatest ==
    /\ ml' = [ml EXCEPT !.op = "latest",
                        !.latest = get_latest_movement(movements)]
    /\ UNCHANGED <<movements, logRest>>

\* Movements.get_count()
LogCount ==
    /\ ml' = [ml EXCEPT !.op = "count", !.count = get_count(movements)]
    /\ UNCHANGED <<movements, logRest>>

\* The arguments of get_movements tried: None, and 0 up to beyond the capacity.
Counts == {<<>>} \cup {<<n>> : n \in 0..(MaxSize + 1)}

\* Movements.get_movements(count)
LogGet(count) ==
    /\ ml' = [ml EXCEPT !.op = "get", !.asked = count,
                        !.returned = get_movements(movements, count)]
    /\ UNCHANGED <<movements, logRest>>

LogNext ==
    \/ \E e \in Events : LogAdd(e)
    \/ LogLatest
    \/ LogCount

\* The log alone, used by one client.
LogSpec == Init /\ [][LogNext]_vars

LogReadNext ==
    \/ \E e \in Events : LogAdd(e)
    \/ \E count \in Counts : LogGet(count)

\* The log alone, with a client that appends and reads the history back.
LogReadSpec == Init /\ [][LogReadNext]_vars

\* The scheduler runs every loop thread that can take a step: each call into
\* the camera, the detector, the vehicle and the observers returns.
FairSpec ==
    /\ WiredInit
    /\ [][LifeNext]_vars
    /\ \A t \in Threads : WF_vars(LoopStep(t))

\* ------------------------------------------------------------------ claims
StartCalled == calls' = calls + 1 /\ lastCall'.op = "start"

StopCalled == calls' = calls + 1 /\ lastCall'.op = "stop"

C2_AtMostOneLoopTask == Cardinality(AliveThreads) <= 1

\* A loop thread of the Controller that has exited was stopped: the last call
\* was a stop(), or a later thread exists, which a stop() came before.
ControllerExitsOnlyAfterStop ==
    \A t \in Threads : pc[t] = "dead" => (lastCall.op = "stop" \/ started > t)

\* C3: no loop ends by itself; a loop that has exited was asked to stop
\* (stop() for the Controller, the quit key or an interrupt for detection_loop).
C3_LoopExitsOnlyAfterStop ==
    /\ ControllerExitsOnlyAfterStop
    /\ dl.pc = "exited" => dl.stop_requested

\* C4: once stop() has cleared the flag, and unless a later start() sets it
\* again, every live loop thread eventually exits; and a thread that finds the
\* flag cleared at its loop condition begins no new iteration.
C4_StopLeadsToExit ==
    /\ \A t \in Threads : (Alive(t) /\ ~running) ~> (~Alive(t) \/ running)
    /\ [][\A t \in Threads :
            (pc[t] = "check" /\ ~running) => pc'[t] \in {"check", "dead"}]_vars

\* A loop thread has exited after a stop() that found the loop running, with
\* frames counted.
C4_Witness ==
    \E t \in Threads :
        /\ pc[t] = "dead"
        /\ lastCall.op = "stop"
        /\ lastCall.was_running
        /\ frame_count > 0

\* C5: stop() on a STOPPED loop (the flag is cleared) raises nothing and
\* changes neither the flag, the thread, the start time, the statistics, the
\* latest results, the movement log, the registry nor any loop thread, from
\* the call to the return of its join.
C5_StopOnStoppedIsNoOp ==
    [][/\ (~running /\ StopCalled) =>
             /\ lastCall'.res \in {"joining", "returned"}
             /\ UNCHANGED <<ctlVars, statVars, latestVars, movements, busVars,
                            devVars, thVars, started>>
       /\ (ui = "joining" /\ ui' = "idle") =>
             /\ lastCall'.res \in {"joined", "timeout"}
             /\ UNCHANGED <<ctlVars, statVars, latestVars, movements, busVars,
                            devVars, thVars, started>>]_vars

\* stop() has returned from a loop it found stopped, after the loop had run
\* and counted frames.
C5_Witness ==
    /\ lastCall = [op |-> "stop", res |-> "joined", was_running |-> FALSE]
    /\ ui = "idle"
    /\ started > 0
    /\ frame_count > 0

\* C6: when a loop thread is about to acquire a frame, every failed
\* acquisition before it has been followed by one reconnect attempt.
C6_OneReconnectPerFailure ==
    \A t \in Threads : pc[t] = "get_frame" => reconnect_calls = frame_failures

\* C7: a cycle whose detection found no marker publishes a snapshot without
\* markers, sends nothing to the vehicle and appends no movement.
C7_ZeroDetectionCycleIsQuiet ==
    \A t \in Threads :
        (/\ pc[t] \in {"pub_lock", "pub_copy", "pub_invoke"}
         /\ loc[t].cycleDetected
         /\ loc[t].cycleMarkers = <<>>) =>
            /\ loc[t].data.markers = <<>>
            /\ loc[t].cycleSends = 0
            /\ loc[t].cycleAppended = 0

\* C8: up to Threshold estimation failures since the last success force no
\* reconnect; the failure after that forces the first one, and the counter is
\* zero after it whether the camera reopened or not.
C8_ForcedReconnectOnce ==
    /\ dl.fails_run <= Threshold => dl.forced_run = 0
    /\ dl.fails_run = Threshold + 1 =>
          (dl.forced_run = 1 /\ dl.failure_count = 0)

\* The 11th failure in a row has forced a reconnect, which failed.
C8_Witness ==
    /\ dl.fails_run = Threshold + 1
    /\ dl.forced_run = 1
    /\ ~dl.source_open

\* C9: while a publish notifies, the observers notified so far are the
\* recipients before the current one, whether or not one of them raised; the
\* publish ends only with the last recipient notified, and the loop goes on to
\* its next loop condition as after any published cycle.
C9_RaisingObserverIsIsolated ==
    /\ [](\A t \in Threads :
            pc[t] = "pub_invoke" =>
                /\ loc[t].idx <= Len(loc[t].copy)
                /\ loc[t].delivered = SubSeq(loc[t].copy, 1, loc[t].idx - 1))
    /\ [][\A t \in Threads :
            (pc[t] = "pub_invoke" /\ pc'[t] # "pub_invoke") =>
                /\ loc[t].idx = Len(loc[t].copy)
                /\ pc'[t] = "check"
                /\ loc'[t].cycleEnd = "published"]_vars

\* An observer has raised and the publish is about to notify the next one.
C9_Witness ==
    \E t \in Threads :
        /\ pc[t] = "pub_invoke"
        /\ loc[t].raisedSeen
        /\ loc[t].idx = 2
        /\ Len(loc[t].copy) = 2

\* C10: the registry lock is held only by a thread making its copy, never by
\* one inside a callback, so every holder can go on and release it; and no
\* step taken while a publish is notifying changes that publish's recipients.
C10_NoLockDuringCallbacks ==
    /\ [](/\ lockHolder # Free => pc[lockHolder] = "pub_copy"
          /\ \A t \in Threads : pc[t] = "pub_invoke" => lockHolder # t)
    /\ [][\A t \in Threads :
            (pc[t] = "pub_invoke" /\ pc'[t] = "pub_invoke") =>
                Recipients(t)' = Recipients(t)]_vars

\* During a publish to one observer, a second one has subscribed: the registry
\* differs from the recipients and the lock is free.
C10_Witness ==
    \E t \in Threads :
        /\ pc[t] = "pub_invoke"
        /\ Len(loc[t].copy) = 1
        /\ Len(observers) = 2
        /\ lockHolder = Free

NoDuplicates(s) == \A i, j \in 1..Len(s) : s[i] = s[j] => i = j

\* C11: the registry holds each observer at most once, whatever subscribe and
\* unsubscribe calls were made and from wherever; a call that leaves the set
\* of subscribers as it was (a duplicate subscribe, an unsubscribe of an
\* absent observer) leaves the list as it was; and a publish has notified
\* each observer at most once.
C11_RegistryHasNoDuplicates ==
    /\ [](/\ NoDuplicates(observers)
          /\ \A t \in Threads :
                pc[t] = "pub_invoke" =>
                    /\ NoDuplicates(Recipients(t))
                    /\ NoDuplicates(loc[t].delivered))
    /\ [][SeqToSet(observers') = SeqToSet(observers) =>
             observers' = observers]_vars

\* While a publish to view then telemetry is under way and has notified view,
\* view has unsubscribed and subscribed again: it is in the registry once,
\* now behind telemetry.
C11_Witness ==
    \E t \in Threads :
        /\ pc[t] = "pub_invoke"
        /\ Recipients(t) = <<"view", "telemetry">>
        /\ loc[t].delivered = <<"view">>
        /\ observers = <<"telemetry", "view">>

\* The last n elements of s (all of s when it has fewer).
LastN(s, n) ==
    IF Len(s) <= n THEN s ELSE SubSeq(s, Len(s) - n + 1, Len(s))

\* C12: the log never holds more than its capacity; it holds the most recent
\* min(n, capacity) of the n events appended, in the order they were
\* appended; count() returns that number; and an append to a full log drops
\* the oldest event and nothing else.
C12_LogKeepsMostRecent ==
    /\ [](/\ Len(movements) <= MaxSize
          /\ movements = LastN(ml.history, MaxSize)
          /\ ml.op = "count" => (/\ ml.count = Len(movements)
                                 /\ ml.count <= MaxSize))
    /\ [][(ml'.op = "add" /\ Len(ml'.history) = Len(ml.history) + 1
             /\ Len(movements) = MaxSize) =>
                /\ Len(movements') = MaxSize
                /\ SubSeq(movements', 1, MaxSize - 1) = Tail(movements)]_vars

\* One event more than the capacity has been appended, to a log that was
\* full: the first event appended is gone.
C12_Witness ==
    /\ ml.op = "add"
    /\ Len(ml.history) = MaxSize + 1
    /\ Len(movements) = MaxSize
    /\ ml.history[1] \notin SeqToSet(movements)

\* C13: latest() called right after append(e) returns e, field for field,
\* whatever the log held before.
C13_LatestReturnsAppended ==
    [][(ml.op = "add" /\ ml'.op = "latest") =>
          ml'.latest = <<ml.history[Len(ml.history)]>>]_vars

\* latest() has returned the event just appended to a full log, which
\* differs from the events the log held before.
C13_Witness ==
    /\ ml.op = "latest"
    /\ Len(ml.history) = MaxSize + 1
    /\ ml.latest = <<ml.history[MaxSize + 1]>>
    /\ ml.history[MaxSize + 1] \notin SeqToSet(SubSeq(ml.history, 1, MaxSize))

\* A loop thread between the send step of its iteration and the end of the
\* iteration.
AfterSend(t) ==
    pc[t] \in {"status", "publish", "pub_lock", "pub_copy", "pub_invoke"}

C15_SendOnlyWhenConnectedAndSwallowed ==
    /\ [](\A t \in Threads :
            (AfterSend(t) /\ loc[t].cycleSends > 0) =>
                (cfg.vehicle /\ vehicle_is_connected))
    /\ [][\A t \in Threads :
            /\ (pc[t] = "send" /\ pc'[t] # "send") =>
                  pc'[t] \in {"status", "publish"}
            /\ (AfterSend(t) /\ ~AfterSend(t)') =>
                  (pc'[t] = "check" /\ loc'[t].cycleEnd = "published")]_vars

\* A cycle whose send failed (guidance sent, no movement appended) is
\* delivering its snapshot, which carries the markers, to its observers.
C15_Witness ==
    \E t \in Threads :
        /\ pc[t] = "pub_invoke"
        /\ loc[t].cycleSends = 1
        /\ loc[t].cycleAppended = 0
        /\ loc[t].data.markers # <<>>

\* C16: no cycle sends more than one guidance message to the vehicle, in
\* the Controller's loop and in detection_loop, however many markers its
\* frame shows.
C16_AtMostOneSendPerCycle ==
    /\ \A t \in Threads : loc[t].cycleSends <= 1
    /\ dl.cycle_sends <= 1

\* C17: a foreground read of the latest frame or of the statistics is never
\* made while a loop thread is between the first and the last write of its
\* iteration; in particular the statistics read count no frame whose
\* detections are not counted yet.
C17_ReadsSeeNoPartialUpdate ==
    rd.op # "none" => rd.mid = {}

\* C18: the store of `frame_count += 1` after a frame was acquired leaves
\* the counter one above what it was, and no other step of any loop thread
\* changes it: not an acquisition that returned nothing or raised.
C18_FrameCountedOncePerFrame ==
    [][/\ \A t \in Threads :
            (pc[t] = "count_frame" /\ pc'[t] = "detect") =>
                frame_count' = frame_count + 1
       /\ frame_count' # frame_count =>
            \E t \in Threads : pc[t] = "count_frame" /\ pc'[t] = "detect"]_vars

\* C19: a start() that starts the loop sets the time origin and resets the
\* counters of frames, detections and solved poses with it; no other step
\* makes any of these counters smaller.
C19_CountersResetOnlyAtRestart ==
    [][IF StartCalled /\ lastCall'.res = "started"
       THEN /\ start_time' = calls'
            /\ frame_count' = 0
            /\ detection_count' = 0
            /\ total_detections' = 0
            /\ successful_poses' = 0
       ELSE /\ frame_count' >= frame_count
            /\ detection_count' >= detection_count
            /\ total_detections' >= total_detections
            /\ successful_poses' >= successful_poses]_vars

\* C20: a LandingTarget is constructed only with a finite marker_length_m
\* greater than zero: every object that exists has one, and a call with a
\* zero, negative, NaN or infinite length (and an acceptable marker_id) ends
\* with InvalidMarkerLengthError.
C20_TargetLengthIsValidated ==
    LET valid(v) == v.kind = "finite" /\ v.val > 0
    IN /\ \A o \in dm.objects : valid(o.marker_length_m)
       /\ dm.last.result = "ok" => valid(dm.last.marker_length_m)
       /\ (/\ dm.last.result # "none"
           /\ ~valid(dm.last.marker_length_m)
           /\ (dm.last.marker_id = <<>> \/ dm.last.marker_id[1] >= 0)) =>
              dm.last.result = "InvalidMarkerLengthError"

\* After objects were constructed, a construction with a NaN length has
\* failed and added none.
C20_Witness ==
    /\ dm.last.marker_length_m = NaN
    /\ dm.last.result = "InvalidMarkerLengthError"
    /\ Cardinality(dm.objects) = MaxObjects

\* C21: a CalibrationData is constructed only from a camera_matrix of shape
\* (3, 3) whose elements are all finite, a matrix of another shape or with a
\* non-finite element makes the construction fail, and a calibration loaded
\* from a file is accepted and refused on the same grounds.
C21_CalibrationIsValidated ==
    LET Is3x3Finite(k) ==
            /\ k.shape = <<3, 3>>
            /\ \A i \in 1..Len(k.elems) : k.elems[i].kind = "finite"
        Validated(k) ==
            /\ fn.result = "ok" => Is3x3Finite(k)
            /\ ~Is3x3Finite(k) => fn.result = "InvalidCalibrationError"
    IN /\ fn.op = "CalibrationData" => Validated(fn.args[1])
       /\ (fn.op = "load_report" /\ fn.args[1] # <<>>) =>
             Validated(fn.args[1][1].camera_matrix)

\* A file whose 3x3 matrix holds a non-finite element was loaded, and refused.
C21_Witness ==
    /\ fn.op = "load_report"
    /\ fn.args[1] # <<>>
    /\ fn.args[1][1].camera_matrix.shape = <<3, 3>>
    /\ \E i \in 1..9 : fn.args[1][1].camera_matrix.elems[i].kind # "finite"
    /\ fn.result = "InvalidCalibrationError"

\* C22: for every pose translation (x, y, z) the guidance triple is
\* angle_x = atan2(x, z), angle_y = atan2(y, z) and distance the root of
\* x^2 + y^2 + z^2; the translation (0, 0, 2) gives the angles 0 and the
\* distance 2.
C22_GuidanceTriple ==
    fn.op \in {"marker_data", "land_message"} =>
        LET x == fn.args[1][1]
            y == fn.args[1][2]
            z == fn.args[1][3]
            zero == [x |-> 1, y |-> 0]
        IN /\ fn.result.angle_x = atan2(x, z)
           /\ fn.result.angle_y = atan2(y, z)
           /\ fn.result.distance.squared = x * x + y * y + z * z
           /\ (x = 0 /\ y = 0 /\ z = 2) =>
                 /\ fn.result.angle_x = zero
                 /\ fn.result.angle_y = zero
                 /\ fn.result.distance.squared = 2 * 2

\* The triple of a marker off both axes was derived: its two angles differ
\* from each other and from 0.
C22_Witness ==
    /\ fn.op = "marker_data"
    /\ fn.args[1] = <<1, -2, 2>>
    /\ fn.result.angle_x = [x |-> 2, y |-> 1]
    /\ fn.result.angle_y = [x |-> 1, y |-> -1]
    /\ fn.result.distance.squared = 9

\* C23: a reconnect is forced only by a failure that brings the estimation
\* failures since the last successful estimation above Threshold; a cycle
\* whose estimation succeeds leaves the counter at zero; a cycle whose
\* estimation fails adds exactly one to it, before the reset that goes with a
\* forced reconnect. So the counter never exceeds the failures since the last
\* success, and equals them until a reconnect is forced.
C23_ReconnectOnlyAfterConsecutiveFailures ==
    /\ [](/\ dl.failure_count <= dl.fails_run
          /\ dl.forced_run = 0 => dl.failure_count = dl.fails_run)
    /\ [][LET Estimated == /\ dl.pc = "process"
                           /\ dl.markers > 0
                           /\ dl'.pc \in {"publish", "exited"}
                           /\ dl'.exit_cause # "interrupt"
              Failed == Estimated /\ dl'.fails_run = dl.fails_run + 1
              Succeeded == Estimated /\ ~Failed
              Forced == dl'.forced_run = dl.forced_run + 1
          IN /\ Forced => (Failed /\ dl.failure_count + 1 > Threshold
                                  /\ dl'.fails_run > Threshold)
             /\ Succeeded => dl'.failure_count = 0
             /\ Failed => IF Forced THEN dl'.failure_count = 0
                          ELSE dl'.failure_count = dl.failure_count + 1
             /\ ~Estimated => dl'.failure_count = dl.failure_count]_vars

\* After a forced reconnect the next failure has brought the counter from 0
\* to 1.
C23_Witness ==
    /\ dl.fails_run = Threshold + 2
    /\ dl.forced_run = 1
    /\ dl.failure_count = 1

\* C24: detect(frame, target) returns the detected markers whose identifier is
\* the target's, all of them when the target has no identifier, each once and
\* in the detector's order; it returns an empty sequence, and raises nothing,
\* when none matches.
C24_DetectFiltersInOrder ==
    fn.op = "detect" =>
        LET detected == fn.args[1]
            target_id == fn.args[2]
            wanted == {i \in 1..Len(detected) :
                          target_id = <<>> \/ detected[i][1] = target_id[1]}
            Nth(k) == CHOOSE i \in wanted :
                          Cardinality({j \in wanted : j < i}) = k - 1
        IN /\ DOMAIN fn.result = 1..Cardinality(wanted)
           /\ \A k \in 1..Cardinality(wanted) : fn.result[k] = detected[Nth(k)]
           /\ wanted = {} => fn.result = <<>>

\* With no target identifier, three detections of which two carry the same
\* identifier were all returned.
C24_Witness ==
    /\ fn.op = "detect"
    /\ fn.args[2] = <<>>
    /\ fn.args[1] = << <<2, 1>>, <<0, 2>>, <<2, 3>> >>
    /\ fn.result = fn.args[1]

\* C25: in a cycle with at least one detection, the detection selected for
\* guidance is the first the detector returned. In the Controller's loop the
\* selected detection is the one whose movement is recorded after the send.
C25_SelectedIsFirstDetection ==
    \A t \in Threads :
        (pc[t] = "publish" /\ loc[t].cycleAppended = 1
            /\ loc[t].cycleMarkers # <<>>) =>
                movements[Len(movements)].marker_id = loc[t].cycleMarkers[1].id

\* C26: in the snapshot a cycle hands to the observers, the markers are those
\* found in the snapshot's frame, the vehicle status is the one computed from
\* those markers, and the statistics count the frame; a cycle whose frame
\* acquisition returned nothing has no snapshot.
C26_SnapshotIsCycleConsistent ==
    \A t \in Threads :
        /\ pc[t] \in {"pub_lock", "pub_copy", "pub_invoke"} =>
              LET data == loc[t].data
              IN /\ cfg.image_treatment =>
                       data.markers = get_corner_position(data.frame).markers
                 /\ (cfg.image_treatment /\ cfg.vehicle) =>
                       /\ data.vehicle_status.markers_detected =
                             Len(data.markers)
                       /\ data.vehicle_status.target_marker =
                             (IF Len(data.markers) > 0
                              THEN Closest(data.markers).id ELSE 0)
                 /\ data.statistics.frame_count >= loc[t].frame_count_read + 1
        /\ loc[t].cycleEnd = "skipped" => loc[t].data = NoData
\* C27: in every state of the Controller, detection_count <= frame_count and
\* successful_poses <= total_detections, and the movement count that
\* get_statistics reports is at most detection_count and at most the capacity
\* of the log (here the loop alone appends movements).
C27_CounterOrdering ==
    /\ detection_count <= frame_count
    /\ successful_poses <= total_detections
    /\ get_statistics.movement_count <= detection_count
    /\ get_statistics.movement_count <= MaxSize

\* C28: get_movements(count=n), n >= 0, returns the min(n, stored) most
\* recent events in insertion order, so an empty list for n = 0;
\* get_movements(None) returns all the stored events.
C28_GetMovementsReturnsLastN ==
    ml.op = "get" =>
        IF ml.asked = <<>> THEN ml.returned = movements
        ELSE LET n == ml.asked[1]
                 k == IF n < Len(movements) THEN n ELSE Len(movements)
             IN /\ Len(ml.returned) = k
                /\ \A i \in 1..k :
                      ml.returned[i] = movements[Len(movements) - k + i]
                /\ n = 0 => ml.returned = <<>>

\* C29: in the result of get_corner_position every marker record carries the
\* corners of the detection with the record's identifier, also after a
\* detection whose pose was not solved; the records are as many as
\* successful_poses, which is at most total_detections. The Controller keeps
\* the records of the latest frame.
C29_CornersBelongToTheirMarker ==
    (cfg.image_treatment /\ latest_annotated_frame # NoFrame) =>
        LET result == get_corner_position(latest_annotated_frame)
            scene == Scenes[latest_annotated_frame]
        IN /\ latest_markers = result.markers
           /\ \A i \in 1..Len(latest_markers) :
                 scene[latest_markers[i].corners].id = latest_markers[i].id
           /\ Len(result.markers) = result.successful_poses
           /\ result.successful_poses <= result.total_detections

\* C30: the four values _update_gui has read come from one update() call,
\* under every interleaving with the loop threads' update() calls, and that
\* call is the last one that returned: a newer snapshot has replaced the older
\* ones, read or not.
C30_GuiReadsOneWholeSnapshot ==
    mv.gui.pc = "release" =>
        /\ mv.gui.frame = mv.gui.markers
        /\ mv.gui.markers = mv.gui.status
        /\ mv.gui.status = mv.gui.stats
        /\ mv.gui.stats = mv.completed

\* Two snapshots arrived before the main thread ran; it has read the second,
\* and the callback of the other arrival is still scheduled.
C30_Witness ==
    /\ mv.gui.pc = "release"
    /\ mv.gui.frame = 2
    /\ mv.gui.stats = 2
    /\ mv.updates = 2
    /\ mv.pending = 1

====
